---- MODULE Spec2Model ----
(***************************************************************************)
(* Model of the domain search service (src/src/index.tsx, POST             *)
(* /api/search) and of the helpers it uses (src/src/utils.ts).             *)
(*                                                                         *)
(* Strings are sequences of one-character strings, so that the string      *)
(* operations of the source (split, replace, trim) are computed, not       *)
(* assumed.  JavaScript's undefined for an optional field is the empty     *)
(* set and a present value v is the singleton {v}.                         *)
(*                                                                         *)
(* Specifications:                                                         *)
(*   Spec       one request through the whole handler                      *)
(*   SpecBare   the same, the provider may suggest a name without a zone   *)
(*   SpecCap    the handler up to the candidate loop, with suggestion      *)
(*              lists longer than the cap of 50                            *)
(*   SpecUtils  the functions of utils.ts applied to bounded inputs        *)
(*   SpecQuery  the handler up to the candidate loop, for raw queries made *)
(*              of prefixes, separators and names                          *)
(*   SpecPair   two requests with one normalized query writing             *)
(*              search_history concurrently                                *)
(***************************************************************************)
EXTENDS Integers, Sequences, FiniteSets, TLC

\* ------------------------------------------------------------------ bounds

\* Longest suggestion list the provider returns in the model.
MaxSuggest == 2

\* Most collaborator calls of one request that are made to throw.
MaxFaults == 1

\* How far the longest suggestion list exceeds the cap of 50.
MaxOver == 1

\* Most pieces (prefixes, separators, names) an input of normalizeDomain is
\* made of.
MaxPieces == 3

\* Most tokens in the status field of a status record.
MaxTokens == 2

\* Most dot-separated labels of an input of extractTLD.
MaxLabels == 3

\* Most records in the Answer of a resolver response.
MaxAnswers == 2

\* ------------------------------------------------------------- characters

UpperChars == <<"A","B","C","D","E","F","G","H","I","J","K","L","M",
                "N","O","P","Q","R","S","T","U","V","W","X","Y","Z">>
LowerChars == <<"a","b","c","d","e","f","g","h","i","j","k","l","m",
                "n","o","p","q","r","s","t","u","v","w","x","y","z">>

\* String.prototype.toLowerCase on one character.
LowerChar(c) ==
  IF \E i \in 1..Len(UpperChars) : UpperChars[i] = c
    THEN LowerChars[CHOOSE i \in 1..Len(UpperChars) : UpperChars[i] = c]
    ELSE c

ToLowerCase(s) == [i \in 1..Len(s) |-> LowerChar(s[i])]

\* The characters String.prototype.trim and the regex class \s remove.
Whitespace == {" ", "\t", "\n"}

Drop(s, n) == SubSeq(s, n + 1, Len(s))

StartsWith(s, p) == Len(s) >= Len(p) /\ SubSeq(s, 1, Len(p)) = p

RECURSIVE TrimStart(_)
TrimStart(s) ==
  IF s # <<>> /\ s[1] \in Whitespace THEN TrimStart(Tail(s)) ELSE s

RECURSIVE TrimEnd(_)
TrimEnd(s) ==
  IF s # <<>> /\ s[Len(s)] \in Whitespace
    THEN TrimEnd(SubSeq(s, 1, Len(s) - 1)) ELSE s

Trim(s) == TrimEnd(TrimStart(s))

\* s.split(sep) for a one-character separator: the pieces between
\* separators, empty pieces kept.
RECURSIVE SplitOn(_, _)
SplitOn(s, sep) ==
  IF \A i \in 1..Len(s) : s[i] # sep
    THEN <<s>>
    ELSE LET k == CHOOSE i \in 1..Len(s) :
                     s[i] = sep /\ \A j \in 1..(i - 1) : s[j] # sep
         IN  <<SubSeq(s, 1, k - 1)>> \o SplitOn(Drop(s, k), sep)

\* s.split(/[\s,]+/)[0]: the text before the first whitespace or comma.
FirstToken(s) ==
  IF \A i \in 1..Len(s) : s[i] \notin (Whitespace \cup {","})
    THEN s
    ELSE LET k == CHOOSE i \in 1..Len(s) :
                     /\ s[i] \in (Whitespace \cup {","})
                     /\ \A j \in 1..(i - 1) : s[j] \notin (Whitespace \cup {","})
         IN  SubSeq(s, 1, k - 1)

RECURSIVE JoinDot(_)
JoinDot(parts) ==
  IF Len(parts) = 0 THEN <<>>
  ELSE IF Len(parts) = 1 THEN parts[1]
  ELSE parts[1] \o <<".">> \o JoinDot(Tail(parts))

\* ------------------------------------------------------------- utils.ts

extractTLDShortOnly(domain) ==
  LET parts == SplitOn(domain, ".")
      n == Len(parts)
  IN  IF n >= 2
        THEN IF n >= 3 /\ Len(parts[n - 1]) < 3
               THEN <<".">> \o JoinDot(SubSeq(parts, n - 1, n))
               ELSE <<".">> \o parts[n]
        ELSE <<>>

extractTLD(domain) ==
  LET parts == SplitOn(domain, ".")
      n == Len(parts)
  IN  IF n >= 2
        THEN IF n >= 3 /\ Len(parts[n - 1]) <= 3
               THEN <<".">> \o JoinDot(SubSeq(parts, n - 1, n))
               ELSE <<".">> \o parts[n]
        ELSE <<>>

HttpPrefix == <<"h","t","t","p",":","/","/">>
HttpsPrefix == <<"h","t","t","p","s",":","/","/">>
WwwPrefix == <<"w","w","w",".">>

StripProtocol(s) ==
  IF StartsWith(s, HttpPrefix) THEN Drop(s, Len(HttpPrefix))
  ELSE IF StartsWith(s, HttpsPrefix) THEN Drop(s, Len(HttpsPrefix))
  ELSE s

StripWww(s) == IF StartsWith(s, WwwPrefix) THEN Drop(s, Len(WwwPrefix)) ELSE s

StripTrailingSlash(s) ==
  IF s # <<>> /\ s[Len(s)] = "/" THEN SubSeq(s, 1, Len(s) - 1) ELSE s

normalizeDomain(input) ==
  Trim(SplitOn(StripTrailingSlash(StripWww(StripProtocol(ToLowerCase(input)))),
               "/")[1])

\* A word of the provider's vocabulary as a string of the model.
W_inactive == <<"i","n","a","c","t","i","v","e">>
W_available == <<"a","v","a","i","l","a","b","l","e">>
W_undelegated == <<"u","n","d","e","l","e","g","a","t","e","d">>
W_active == <<"a","c","t","i","v","e">>
W_parked == <<"p","a","r","k","e","d">>
W_claimed == <<"c","l","a","i","m","e","d">>
W_registered == <<"r","e","g","i","s","t","e","r","e","d">>
W_reserved == <<"r","e","s","e","r","v","e","d">>
W_premium == <<"p","r","e","m","i","u","m">>
W_unknown == <<"u","n","k","n","o","w","n">>

\* s.split(/\s+/).filter(Boolean): the maximal runs of non-whitespace.
RECURSIVE SplitWs(_)
SplitWs(s) ==
  LET t == TrimStart(s)
  IN  IF t = <<>> THEN <<>>
      ELSE IF \A i \in 1..Len(t) : t[i] \notin Whitespace THEN <<t>>
      ELSE LET k == CHOOSE i \in 1..Len(t) :
                       t[i] \in Whitespace /\ \A j \in 1..(i - 1) : t[j] \notin Whitespace
           IN  <<SubSeq(t, 1, k - 1)>> \o SplitWs(Drop(t, k))

Includes(seq, x) == \E i \in 1..Len(seq) : seq[i] = x

\* A status record is [summary |-> string, status |-> string]; an absent
\* field is the empty string, as (field || '') makes it.  An absent record
\* is the empty set, a present record rec the set {rec}.
convertDomainrStatusTokensFirst(domainStatus) ==
  IF domainStatus = {} THEN "unknown"
  ELSE
    LET rec == CHOOSE r \in domainStatus : TRUE
        statusTokens == SplitWs(ToLowerCase(rec.status))
        summary == ToLowerCase(rec.summary)
    IN  IF \/ Includes(statusTokens, W_undelegated)
           \/ Includes(statusTokens, W_inactive)
           \/ Includes(statusTokens, W_available)
          THEN "available"
        ELSE IF \/ Includes(statusTokens, W_active)
                \/ Includes(statusTokens, W_parked)
                \/ Includes(statusTokens, W_premium)
                \/ Includes(statusTokens, W_registered)
                \/ Includes(statusTokens, W_reserved)
          THEN "taken"
        ELSE IF summary \in {W_inactive, W_available, W_undelegated}
          THEN "available"
        ELSE IF summary \in {W_active, W_parked, W_claimed, W_registered, W_reserved}
          THEN "taken"
        ELSE "unknown"

convertDomainrStatus(domainStatus) ==
  IF domainStatus = {} THEN "unknown"
  ELSE
    LET rec == CHOOSE r \in domainStatus : TRUE
        statusTokens == SplitWs(ToLowerCase(rec.status))
        summary == ToLowerCase(rec.summary)
    IN  IF summary \in {W_inactive, W_available, W_undelegated}
          THEN "available"
        ELSE IF summary \in {W_active, W_parked, W_claimed, W_registered, W_reserved}
          THEN "taken"
        ELSE IF summary = W_unknown \/ summary = <<>>
          THEN IF \/ Includes(statusTokens, W_undelegated)
                  \/ Includes(statusTokens, W_inactive)
                  \/ Includes(statusTokens, W_available)
                 THEN "available"
               ELSE IF \/ Includes(statusTokens, W_active)
                       \/ Includes(statusTokens, W_parked)
                       \/ Includes(statusTokens, W_premium)
                       \/ Includes(statusTokens, W_registered)
                       \/ Includes(statusTokens, W_reserved)
                 THEN "taken"
               ELSE "unknown"
        ELSE "unknown"

\* The answer of the DNS-over-HTTPS resolver as the code sees it:
\*   outcome "throw"   fetch rejected, or the body is not JSON
\*   outcome "notok"   response.ok is false
\*   outcome "json"    a parsed body with Status and the length of Answer
\*                     (0 when Answer is missing or empty)
NXDOMAIN == 3

DnsResponses ==
  {[outcome |-> "throw", Status |-> 0, answers |-> 0],
   [outcome |-> "notok", Status |-> 0, answers |-> 0],
   [outcome |-> "json", Status |-> NXDOMAIN, answers |-> 0],
   [outcome |-> "json", Status |-> 0, answers |-> 1],
   [outcome |-> "json", Status |-> 0, answers |-> 0],
   [outcome |-> "json", Status |-> 2, answers |-> 0]}

checkDomainAvailabilityDNSNoOkCheck(resp) ==
  IF resp.outcome = "throw" THEN "unknown"
  ELSE IF resp.Status = NXDOMAIN THEN "available"
  ELSE IF resp.answers > 0 THEN "taken"
  ELSE "unknown"

checkDomainAvailabilityDNS(resp) ==
  IF resp.outcome = "throw" THEN "unknown"
  ELSE IF resp.outcome = "notok" THEN "unknown"
  ELSE IF resp.Status = NXDOMAIN THEN "available"
  ELSE IF resp.answers > 0 THEN "taken"
  ELSE "unknown"

\* ------------------------------------------------- registrar pricing rows

\* A row of the registrars LEFT JOIN registrar_pricing query is
\* [id, tld, price, currency]; a registrar without pricing has the SQL NULL
\* in tld and price.
SqlNull == -1
NullTld == <<"NULL">>

USD_TO_JPY == 150
RegistrarCap == 10

\* The projection the reduce callback pushes for row curr.
Offer(curr, domain) ==
  [id |-> curr.id, price |-> curr.price, currency |-> curr.currency,
   register_url |-> domain]

\* .filter(r => r.tld === tld && r.price !== null)
FilterTld(rows, tld) ==
  SelectSeq(rows, LAMBDA r : r.tld = tld /\ r.price # SqlNull)

\* .reduce(...): a row is pushed unless acc already holds its registrar id.
RECURSIVE DedupLastFrom(_, _, _)
DedupLastFrom(acc, rows, domain) ==
  IF rows = <<>> THEN acc
  ELSE LET curr == Head(rows)
           rest == SelectSeq(acc, LAMBDA r : r.id # curr.id)
       IN  DedupLastFrom(Append(rest, Offer(curr, domain)), Tail(rows), domain)

RECURSIVE DedupFrom(_, _, _)
DedupFrom(acc, rows, domain) ==
  IF rows = <<>> THEN acc
  ELSE LET curr == Head(rows)
       IN  IF \E i \in 1..Len(acc) : acc[i].id = curr.id
             THEN DedupFrom(acc, Tail(rows), domain)
             ELSE DedupFrom(Append(acc, Offer(curr, domain)), Tail(rows), domain)

DedupKeepLast(rows, domain) == DedupLastFrom(<<>>, rows, domain)

DedupById(rows, domain) == DedupFrom(<<>>, rows, domain)

\* The sort callback of step 4: the sign of aPrice - bPrice, where a price
\* of 0 reads as Infinity (a.price || Infinity), a JPY price is divided by
\* USD_TO_JPY, and Infinity - Infinity is NaN, which sort takes as 0.
\* Prices are compared after multiplying both sides by USD_TO_JPY.
Scaled(o) == IF o.currency = "JPY" THEN o.price ELSE o.price * USD_TO_JPY

PriceCompare(a, b) ==
  IF a.price = 0 /\ b.price = 0 THEN 0
  ELSE IF a.price = 0 THEN 1
  ELSE IF b.price = 0 THEN -1
  ELSE IF Scaled(a) < Scaled(b) THEN -1
  ELSE IF Scaled(a) > Scaled(b) THEN 1
  ELSE 0

\* Array.prototype.sort is stable: o goes after every element it does not
\* strictly precede.
RECURSIVE InsertByPrice(_, _)
InsertByPrice(sorted, o) ==
  IF sorted = <<>> THEN <<o>>
  ELSE IF PriceCompare(o, Head(sorted)) < 0 THEN <<o>> \o sorted
  ELSE <<Head(sorted)>> \o InsertByPrice(Tail(sorted), o)

RECURSIVE SortByPrice(_)
SortByPrice(offers) ==
  IF offers = <<>> THEN <<>>
  ELSE InsertByPrice(SortByPrice(SubSeq(offers, 1, Len(offers) - 1)),
                     offers[Len(offers)])

Slice(seq, n) == SubSeq(seq, 1, IF Len(seq) < n THEN Len(seq) ELSE n)

\* index.tsx 130-170: the offers of a step-4 candidate.
domainRegistrars(rows, tld, domain) ==
  Slice(SortByPrice(DedupById(FilterTld(rows, tld), domain)), RegistrarCap)

\* index.tsx 236-259: the offers of a result the retry pass made available.
retryRegistrars(rows, tld, domain) ==
  Slice(DedupById(FilterTld(rows, tld), domain), RegistrarCap)

\* index.tsx 318-341: the offers of the .jp candidate.
DotJp == <<".","j","p">>

jpRegistrars(rows, domain) ==
  Slice(DedupById(FilterTld(rows, DotJp), domain), RegistrarCap)

\* ------------------------------------------------------ inputs of a run

X_IO == <<"x",".","i","o">>
X_JP == <<"x",".","j","p">>
DotIo == <<".","i","o">>

\* The request body's query: absent, empty, blank, or a keyword.
Queries == {{}, {<<>>}, {<<" ">>}, {<<"X">>}}

\* The request body's language: absent or 'ja'.
Languages == {{}, {"ja"}}

\* The api_keys row for 'domainr_api': no active row, a row with an empty
\* key, or a row with a key.
ApiKeyRows == {"none", "empty", "key"}

\* What the suggestion provider holds for the query.
SuggestDomains == {X_IO, X_JP}

RECURSIVE SeqsUpTo(_, _)
SeqsUpTo(S, n) ==
  IF n = 0 THEN {<<>>}
  ELSE LET shorter == SeqsUpTo(S, n - 1)
       IN  shorter \cup {Append(q, x) : q \in {t \in shorter : Len(t) = n - 1}, x \in S}

SuggestLists == SeqsUpTo(SuggestDomains, MaxSuggest)

\* The status records the provider answers with.
RecInactive == [summary |-> W_inactive,
                status |-> W_undelegated \o <<" ">> \o W_inactive]
RecActive == [summary |-> W_active, status |-> W_active]
RecUnknown == [summary |-> W_unknown, status |-> W_unknown]
StatusRecords == {RecInactive, RecActive, RecUnknown}

\* Every Map the status call can return for a request: a record for some
\* of the requested domains (none when the call fails).
StatusMaps(requested) ==
  UNION {[S -> StatusRecords] : S \in SUBSET {requested[i] : i \in 1..Len(requested)}}

MapGet(map, key) == IF key \in DOMAIN map THEN {map[key]} ELSE {}

\* The rows of the pricing query in the order of ORDER BY r.display_order
\* ASC: registrar 1 (priced in two currencies for .io), registrar 2, and
\* registrar 3, which has no pricing row.
PricingA ==
  <<[id |-> 1, tld |-> DotIo, price |-> 3000, currency |-> "JPY"],
    [id |-> 1, tld |-> DotIo, price |-> 10, currency |-> "USD"],
    [id |-> 1, tld |-> DotJp, price |-> 5000, currency |-> "JPY"],
    [id |-> 2, tld |-> DotIo, price |-> 15, currency |-> "USD"],
    [id |-> 2, tld |-> DotJp, price |-> 20, currency |-> "USD"],
    [id |-> 3, tld |-> NullTld, price |-> SqlNull, currency |-> "NULL"]>>
PricingTables == {PricingA}

\* ---------------------------------------------------------------- state

VARIABLES
  pc,              \* the stage the handler is at
  query,           \* request body: query
  requestLanguage, \* request body: language
  apiKeyRow,       \* api_keys table
  providerResults, \* what the suggestion provider returns for the query
  pricingTable,    \* registrars LEFT JOIN registrar_pricing
  normalized,      \* const normalized
  apiKeyRecord,    \* const apiKeyRecord
  domains,         \* const domains (capped suggestion list)
  statusMap,       \* const statusMap
  registrars,      \* const registrars (registrars.results)
  results,         \* const results: DomainResult[]
  idx,             \* position of the running for-of loop
  retryStatusMap,  \* const retryStatusMap
  cache,           \* domain_cache table: domain -> is_available
  history,         \* search_history table, oldest row first
  trace,           \* the calls made to collaborators, in order
  faults,          \* how many of them were made to throw
  response,        \* the HTTP response, {} until the handler returns
  evals,           \* applications of the utils.ts functions: [fn, arg, out]
  reqs             \* concurrent requests: [pc, domain, status, row]

vars == <<pc, query, requestLanguage, apiKeyRow, providerResults, pricingTable,
          normalized, apiKeyRecord, domains, statusMap, registrars, results,
          idx, retryStatusMap, cache, history, trace, faults, response, evals,
          reqs>>

\* What a request leaves alone: its body, the stored rows, what the provider
\* holds, and the record of direct function applications.
inputs == <<query, requestLanguage, apiKeyRow, providerResults, pricingTable,
            evals, reqs>>

EmptyMap == [d \in {} |-> RecUnknown]
EmptyCache == [d \in {} |-> 0]

DomainCap == 50

Init ==
  /\ pc = "validate"
  /\ query \in Queries
  /\ requestLanguage \in Languages
  /\ apiKeyRow \in ApiKeyRows
  /\ providerResults \in SuggestLists
  /\ pricingTable \in PricingTables
  /\ normalized = <<>>
  /\ apiKeyRecord = "unread"
  /\ domains = <<>>
  /\ statusMap = EmptyMap
  /\ registrars = <<>>
  /\ results = <<>>
  /\ idx = 0
  /\ retryStatusMap = EmptyMap
  /\ cache = EmptyCache
  /\ history = <<>>
  /\ trace = <<>>
  /\ faults = 0
  /\ response = {}
  /\ evals = <<>>
  /\ reqs = <<>>

\* A call to a collaborator: what was called, with what, and how it ended
\* (for a status call: the Map that domainrStatus returned).
Call(op, arg, outcome) == [op |-> op, arg |-> arg, outcome |-> outcome]

\* c.json(body, code): an error body has error and message, a
\* SearchResponse has query and results.
Reply(code, error, message, q, list) ==
  [code |-> code, error |-> error, message |-> message, query |-> q,
   results |-> list]

Outcome(ok) == IF ok THEN "ok" ELSE "throw"

\* Whether the next database call may be made to throw.
OkChoices == IF faults < MaxFaults THEN BOOLEAN ELSE {TRUE}

Failed(ok) == IF ok THEN 0 ELSE 1

\* return c.json({ error: 'Internal server error' }, 500) of the outer catch
InternalError == Reply(500, "Internal server error", "", <<>>, <<>>)

\* status === 'available' ? 1 : status === 'taken' ? 0 : 2
CacheCode(status) ==
  IF status = "available" THEN 1 ELSE IF status = "taken" THEN 0 ELSE 2

\* INSERT OR REPLACE INTO domain_cache
Upsert(table, domain, code) ==
  [d \in DOMAIN table \cup {domain} |-> IF d = domain THEN code ELSE table[d]]

\* INSERT INTO search_history
HistoryRow(domain, status, tld, language) ==
  [domain |-> domain, status |-> status, tld |-> tld,
   search_query |-> normalized, language |-> language]

\* UPDATE search_history SET status = ? WHERE domain = ? AND search_query = ?
\* ORDER BY searched_at DESC LIMIT 1: the newest matching row, if any.
UpdateLatestByInsert(rows, domain, q, status) ==
  Append(rows, [domain |-> domain, status |-> status, tld |-> <<>>,
                search_query |-> q, language |-> "en"])

UpdateLatest(rows, domain, q, status) ==
  LET hits == {i \in 1..Len(rows) : rows[i].domain = domain /\ rows[i].search_query = q}
  IN  IF hits = {} THEN rows
      ELSE LET last == CHOOSE i \in hits : \A j \in hits : j <= i
           IN  [rows EXCEPT ![last].status = status]

\* ------------------------------------------------------- POST /api/search

\* The locals and stores an action leaves alone, beside those it names.
locals == <<normalized, apiKeyRecord, domains, statusMap, registrars, idx,
            retryStatusMap>>

\* !query || query.trim().length === 0, without the trim
QueryMissingNoTrim(body) == body = {} \/ (\E q \in body : q = <<>>)

\* !query || query.trim().length === 0
QueryMissing(body) == body = {} \/ (\E q \in body : q = <<>> \/ Len(Trim(q)) = 0)

\* index.tsx 52-58: parse the body, reject a missing or blank query.
Validate ==
  /\ pc = "validate"
  /\ IF QueryMissing(query)
       THEN /\ response' = {Reply(400, "Query is required", "", <<>>, <<>>)}
            /\ pc' = "done"
            /\ UNCHANGED normalized
       ELSE /\ normalized' = normalizeDomain(CHOOSE q \in query : TRUE)
            /\ pc' = "apiKey"
            /\ UNCHANGED response
  /\ UNCHANGED <<inputs, apiKeyRecord, domains, statusMap, registrars, results,
                 idx, retryStatusMap, cache, history, trace, faults>>

\* !apiKeyRecord, without the check of the key
KeyMissingRowOnly(record) == record = "none"

\* !apiKeyRecord || !apiKeyRecord.api_key
KeyMissing(record) == record = "none" \/ record = "empty"

\* index.tsx 61-73: read the provider credential; the read itself can throw.
ReadApiKey ==
  /\ pc = "apiKey"
  /\ \E ok \in OkChoices :
       /\ trace' = Append(trace, Call("apiKey", <<>>, Outcome(ok)))
       /\ faults' = faults + Failed(ok)
       /\ IF ~ok
            THEN /\ response' = {InternalError}
                 /\ pc' = "done"
                 /\ UNCHANGED apiKeyRecord
            ELSE /\ apiKeyRecord' = apiKeyRow
                 /\ IF KeyMissing(apiKeyRow)
                      THEN /\ response' = {Reply(503, "Domainr API key not configured",
                                "Please configure Domainr API key in admin panel",
                                <<>>, <<>>)}
                           /\ pc' = "done"
                      ELSE /\ pc' = "suggest"
                           /\ UNCHANGED response
  /\ UNCHANGED <<inputs, normalized, domains, statusMap, registrars, results,
                 idx, retryStatusMap, cache, history>>

\* utils.ts 89-110: every failure of the search call ends as the empty list.
SuggestOutcomes == {"throw", "notok", "noresults", "ok"}

domainrSearch(outcome, held) == IF outcome = "ok" THEN held ELSE <<>>

\* if (searchResults.length === 0)
NoSuggestionsNever(searchResults) == FALSE

NoSuggestions(searchResults) == Len(searchResults) = 0

\* searchResults.map(r => r.domain).slice(0, 50)
CappedDomainsNoCap(searchResults) == searchResults

CappedDomains(searchResults) == Slice(searchResults, DomainCap)

\* index.tsx 75-87: suggest, answer at once when nothing is suggested,
\* else keep the first DomainCap domains.
Suggest ==
  /\ pc = "suggest"
  /\ \E outcome \in SuggestOutcomes :
       LET searchResults == domainrSearch(outcome, providerResults)
       IN  /\ trace' = Append(trace, Call("suggest", normalized, outcome))
           /\ IF NoSuggestions(searchResults)
                THEN /\ response' = {Reply(200, "", "", normalized, <<>>)}
                     /\ pc' = "done"
                     /\ UNCHANGED domains
                ELSE /\ domains' = CappedDomains(searchResults)
                     /\ pc' = "status"
                     /\ UNCHANGED response
  /\ UNCHANGED <<inputs, normalized, apiKeyRecord, statusMap, registrars, results,
                 idx, retryStatusMap, cache, history, faults>>

\* index.tsx 90, utils.ts 116-148: one status call for the capped list; a
\* failed call ends as the empty Map.
BatchStatus ==
  /\ pc = "status"
  /\ \E m \in StatusMaps(domains) :
       /\ statusMap' = m
       /\ trace' = Append(trace, Call("status", domains, m))
  /\ pc' = "pricing"
  /\ UNCHANGED <<inputs, normalized, apiKeyRecord, domains, registrars, results,
                 idx, retryStatusMap, cache, history, faults, response>>

\* index.tsx 93-99: the pricing query, outside any local try.
LoadPricing ==
  /\ pc = "pricing"
  /\ \E ok \in OkChoices :
       /\ trace' = Append(trace, Call("pricing", <<>>, Outcome(ok)))
       /\ faults' = faults + Failed(ok)
       /\ IF ok
            THEN /\ registrars' = pricingTable
                 /\ idx' = 1
                 /\ pc' = "candidates"
                 /\ UNCHANGED response
            ELSE /\ response' = {InternalError}
                 /\ pc' = "done"
                 /\ UNCHANGED <<registrars, idx>>
  /\ UNCHANGED <<inputs, normalized, apiKeyRecord, domains, statusMap, results,
                 retryStatusMap, cache, history>>

\* language = requestLanguage || 'en'
HistoryLanguage == IF requestLanguage = {} THEN "en" ELSE CHOOSE l \in requestLanguage : TRUE

\* index.tsx 174-181: the DomainResult pushed for a candidate.
DomainResult(domain, tld, status, offers) ==
  [domain |-> domain, tld |-> tld, status |-> status,
   registrars |-> IF status = "available" THEN {offers} ELSE {},
   whois |-> IF status = "taken" THEN "null" ELSE "undefined",
   cached |-> FALSE]

\* The resolver is asked only when the classifier said unknown.
DnsChoices(status) ==
  IF status = "unknown" THEN DnsResponses
  ELSE {[outcome |-> "throw", Status |-> 0, answers |-> 0]}

\* if (status === 'unknown') status = await checkDomainAvailabilityDNS(domain)
EffectiveDnsAlways(classified, dns) == checkDomainAvailabilityDNS(dns)

Effective(classified, dns) ==
  IF classified = "unknown" THEN checkDomainAvailabilityDNS(dns) ELSE classified

DnsTrace(t, classified, domain, status) ==
  IF classified = "unknown" THEN Append(t, Call("dns", domain, status)) ELSE t

\* if (tld && tld.length > 0)
HasTldAlways(tld) == TRUE

HasTld(tld) == Len(tld) > 0

\* index.tsx 104-199: one iteration of the loop over the capped list.
Candidate ==
  /\ pc = "candidates"
  /\ LET domain == domains[idx]
         tld == extractTLD(domain)
         domainStatus == MapGet(statusMap, domain)
         classified == convertDomainrStatus(domainStatus)
         next == IF idx = Len(domains) THEN "retry" ELSE "candidates"
     IN  IF domainStatus = {}
           THEN /\ pc' = next
                /\ idx' = idx + 1
                /\ UNCHANGED <<results, cache, history, trace, faults, response>>
           ELSE \E dns \in DnsChoices(classified), cacheOk \in OkChoices, auditOk \in OkChoices :
                  LET status == Effective(classified, dns)
                      t2 == Append(DnsTrace(trace, classified, domain, status),
                                   Call("cache", domain, Outcome(cacheOk)))
                  IN  IF ~cacheOk
                        THEN /\ trace' = t2
                             /\ faults' = faults + 1
                             /\ response' = {InternalError}
                             /\ pc' = "done"
                             /\ UNCHANGED <<results, cache, history, idx>>
                        ELSE /\ cache' = Upsert(cache, domain, CacheCode(status))
                             /\ IF HasTld(tld)
                                  THEN /\ results' = Append(results,
                                            DomainResult(domain, tld, status,
                                              domainRegistrars(registrars, tld, domain)))
                                       /\ trace' = Append(t2,
                                            Call("historyInsert", domain, Outcome(auditOk)))
                                       /\ history' = IF auditOk
                                            THEN Append(history,
                                                   HistoryRow(domain, status, tld, HistoryLanguage))
                                            ELSE history
                                       /\ faults' = faults + Failed(auditOk)
                                  ELSE /\ trace' = t2
                                       /\ UNCHANGED <<results, history, faults>>
                             /\ pc' = next
                             /\ idx' = idx + 1
                             /\ UNCHANGED response
  /\ UNCHANGED <<inputs, normalized, apiKeyRecord, domains, statusMap, registrars,
                 retryStatusMap>>

\* results.filter(r => r.status === 'unknown').map(r => r.domain)
UnknownDomainsAll(list) == [i \in 1..Len(list) |-> list[i].domain]

UnknownDomains(list) ==
  LET picked == SelectSeq(list, LAMBDA r : r.status = "unknown")
  IN  [i \in 1..Len(picked) |-> picked[i].domain]

\* index.tsx 201-208: when a result is unknown, wait, then ask the status
\* of the unknown domains again.
StartRetry ==
  /\ pc = "retry"
  /\ LET unknownDomains == UnknownDomains(results)
     IN  IF Len(unknownDomains) > 0
           THEN \E m \in StatusMaps(unknownDomains) :
                  /\ retryStatusMap' = m
                  /\ trace' = trace \o <<Call("delay", <<>>, "ok"),
                                         Call("status", unknownDomains, m)>>
                  /\ idx' = 1
                  /\ pc' = "retryLoop"
           ELSE /\ pc' = "sort"
                /\ UNCHANGED <<retryStatusMap, trace, idx>>
  /\ UNCHANGED <<inputs, normalized, apiKeyRecord, domains, statusMap, registrars,
                 results, cache, history, faults, response>>

\* The update with the registrars filled in whatever the new status is.
RetryUpdateAnyStatus(result, retryStatus, rows) ==
  [result EXCEPT
     !.status = retryStatus,
     !.registrars = IF result.registrars = {}
                      THEN {retryRegistrars(rows, result.tld, result.domain)}
                      ELSE result.registrars]

\* index.tsx 221-261: the in-place update of a result the retry resolved.
RetryUpdate(result, retryStatus, rows) ==
  [result EXCEPT
     !.status = retryStatus,
     !.registrars = IF retryStatus = "available" /\ result.registrars = {}
                      THEN {retryRegistrars(rows, result.tld, result.domain)}
                      ELSE result.registrars]

\* index.tsx 278-284: after the loop of the retry pass the handler goes on
\* to the sort; there is no second pass.
AfterRetryUntilKnown(list) ==
  IF UnknownDomains(list) # <<>> THEN "retry" ELSE "sort"

AfterRetry(list) == "sort"

\* if (result.status === 'unknown')
StillUnknownAny(result) == TRUE

StillUnknown(result) == result.status = "unknown"

\* index.tsx 210-277: one iteration of the loop over the results.
RetryResult ==
  /\ pc = "retryLoop"
  /\ LET result == results[idx]
         retryDomainStatus == MapGet(retryStatusMap, result.domain)
         classified == convertDomainrStatus(retryDomainStatus)
         next == IF idx = Len(results) THEN AfterRetry(results) ELSE "retryLoop"
     IN  IF ~StillUnknown(result) \/ retryDomainStatus = {}
           THEN /\ pc' = next
                /\ idx' = idx + 1
                /\ UNCHANGED <<results, cache, history, trace, faults, response>>
           ELSE \E dns \in DnsChoices(classified), cacheOk \in OkChoices, auditOk \in OkChoices :
                  LET retryStatus == Effective(classified, dns)
                      t2 == Append(DnsTrace(trace, classified, result.domain, retryStatus),
                                   Call("cache", result.domain, Outcome(cacheOk)))
                  IN  IF ~cacheOk
                        THEN /\ results' = [results EXCEPT ![idx].status = retryStatus]
                             /\ trace' = t2
                             /\ faults' = faults + 1
                             /\ response' = {InternalError}
                             /\ pc' = "done"
                             /\ UNCHANGED <<cache, history, idx>>
                        ELSE /\ results' = [results EXCEPT
                                  ![idx] = RetryUpdate(result, retryStatus, registrars)]
                             /\ cache' = Upsert(cache, result.domain, CacheCode(retryStatus))
                             /\ trace' = Append(t2,
                                  Call("historyUpdate", result.domain, Outcome(auditOk)))
                             /\ history' = IF auditOk
                                  THEN UpdateLatest(history, result.domain, normalized, retryStatus)
                                  ELSE history
                             /\ faults' = faults + Failed(auditOk)
                             /\ pc' = next
                             /\ idx' = idx + 1
                             /\ UNCHANGED response
  /\ UNCHANGED <<inputs, normalized, apiKeyRecord, domains, statusMap, registrars,
                 retryStatusMap>>

\* const statusOrder = { available: 0, taken: 1, unknown: 2 }
statusOrder(status) ==
  IF status = "available" THEN 0 ELSE IF status = "taken" THEN 1 ELSE 2

\* (a, b) => statusOrder[a.status] - statusOrder[b.status]
StatusCompareTiesFirst(a, b) ==
  IF a.status = b.status THEN -1 ELSE statusOrder(a.status) - statusOrder(b.status)

StatusCompare(a, b) == statusOrder(a.status) - statusOrder(b.status)

\* Insertion behind every element that does not compare greater.
RECURSIVE InsertByStatus(_, _)
InsertByStatus(sorted, r) ==
  IF sorted = <<>> THEN <<r>>
  ELSE IF StatusCompare(r, Head(sorted)) < 0
    THEN <<r>> \o sorted
  ELSE <<Head(sorted)>> \o InsertByStatus(Tail(sorted), r)

\* results.sort(...), a stable sort.
RECURSIVE SortByStatus(_)
SortByStatus(list) ==
  IF list = <<>> THEN <<>>
  ELSE InsertByStatus(SortByStatus(SubSeq(list, 1, Len(list) - 1)), list[Len(list)])

\* index.tsx 280-284
SortResults ==
  /\ pc = "sort"
  /\ results' = SortByStatus(results)
  /\ pc' = "jp"
  /\ UNCHANGED <<inputs, locals, cache, history, trace, faults, response>>

\* normalized.split(/[\s,]+/)[0].split('.')[0]
BaseDomain(q) == SplitOn(FirstToken(q), ".")[1]

JpDomain(q) == BaseDomain(q) \o DotJp

\* index.tsx 344-351: the DomainResult pushed for the .jp candidate.
JpResult(jpDomain, jpStatus, offers) ==
  [domain |-> jpDomain, tld |-> DotJp, status |-> jpStatus,
   registrars |-> IF jpStatus = "available" THEN {offers} ELSE {},
   whois |-> IF jpStatus = "taken" THEN "null" ELSE "undefined",
   cached |-> FALSE]

\* index.tsx 286-370: for language 'ja', resolve <base>.jp unless a result
\* already has that domain; every failure in here is caught and logged.
RegionPass ==
  /\ pc = "jp"
  /\ pc' = "respond"
  /\ LET baseDomain == BaseDomain(normalized)
         jpDomain == JpDomain(normalized)
         hasJpDomain == \E i \in 1..Len(results) : results[i].domain = jpDomain
     IN  IF requestLanguage = {"ja"} /\ ~hasJpDomain /\ baseDomain # <<>>
           THEN \E m \in StatusMaps(<<jpDomain>>) :
                  LET jpDomainStatus == MapGet(m, jpDomain)
                      classified == convertDomainrStatus(jpDomainStatus)
                      t0 == Append(trace, Call("status", <<jpDomain>>, m))
                  IN  IF jpDomainStatus = {}
                        THEN /\ trace' = t0
                             /\ UNCHANGED <<results, cache, history, faults>>
                        ELSE \E dns \in DnsChoices(classified),
                                cacheOk \in OkChoices, auditOk \in OkChoices :
                               LET jpStatus == Effective(classified, dns)
                                   t2 == Append(DnsTrace(t0, classified, jpDomain, jpStatus),
                                                Call("cache", jpDomain, Outcome(cacheOk)))
                               IN  IF ~cacheOk
                                     THEN /\ trace' = t2
                                          /\ faults' = faults + 1
                                          /\ UNCHANGED <<results, cache, history>>
                                     ELSE /\ cache' = Upsert(cache, jpDomain, CacheCode(jpStatus))
                                          /\ results' = Append(results,
                                               JpResult(jpDomain, jpStatus,
                                                        jpRegistrars(registrars, jpDomain)))
                                          /\ trace' = Append(t2,
                                               Call("historyInsert", jpDomain, Outcome(auditOk)))
                                          /\ history' = IF auditOk
                                               THEN Append(history,
                                                      HistoryRow(jpDomain, jpStatus, DotJp, "ja"))
                                               ELSE history
                                          /\ faults' = faults + Failed(auditOk)
           ELSE UNCHANGED <<results, cache, history, trace, faults>>
  /\ UNCHANGED <<inputs, locals, response>>

\* index.tsx 372-378
Respond ==
  /\ pc = "respond"
  /\ response' = {Reply(200, "", "", normalized, results)}
  /\ pc' = "done"
  /\ UNCHANGED <<inputs, locals, results, cache, history, trace, faults>>

Next ==
  \/ Validate
  \/ ReadApiKey
  \/ Suggest
  \/ BatchStatus
  \/ LoadPricing
  \/ Candidate
  \/ StartRetry
  \/ RetryResult
  \/ SortResults
  \/ RegionPass
  \/ Respond

Spec == Init /\ [][Next]_vars

\* ------------------------------------------------------------- properties

\* The handler has returned, and what it returned.
Responded == response # {}
TheResponse == CHOOSE r \in response : TRUE
Succeeded == Responded /\ TheResponse.code = 200
ReturnedResults == IF Succeeded THEN TheResponse.results ELSE <<>>

\* A collaborator call of kind op was made / was made and threw.
Called(op) == \E i \in 1..Len(trace) : trace[i].op = op
Threw(op) == \E i \in 1..Len(trace) : trace[i].op = op /\ trace[i].outcome = "throw"

\* The offers of a result (none when the field is undefined).
OffersOf(r) == IF r.registrars = {} THEN <<>> ELSE CHOOSE o \in r.registrars : TRUE

\* The retry pass ran in this request.
Retried == Called("delay")

\* C1: in every successful response no taken or unknown result precedes an
\* available one and no unknown result precedes a taken one, the .jp
\* candidate of a 'ja' request included.
C1_ResultsOrderedByState ==
  Succeeded =>
    \A i, j \in 1..Len(ReturnedResults) :
      i < j => statusOrder(ReturnedResults[i].status)
                 <= statusOrder(ReturnedResults[j].status)

\* C2: a missing, empty or whitespace-only query ends with 400 and no
\* further stage: no credential read, no suggestion, status or DNS call, no
\* cache or audit write.
BlankQuery ==
  query = {} \/ \E q \in query : \A i \in 1..Len(q) : q[i] \in Whitespace

C2_BlankQueryRejected ==
  (BlankQuery /\ pc # "validate") =>
    /\ pc = "done"
    /\ Responded /\ TheResponse.code = 400
    /\ trace = <<>>
    /\ cache = EmptyCache
    /\ history = <<>>

C2_Witness == query = {<<" ">>} /\ pc = "done" /\ Responded

\* C3: a failed suggestion call (transport error or non-OK answer) never
\* ends as a successful response.
SuggestFailed ==
  \E i \in 1..Len(trace) :
    trace[i].op = "suggest" /\ trace[i].outcome \in {"throw", "notok"}

C3_SuggestFailureSurfaced == (SuggestFailed /\ Responded) => TheResponse.code >= 500

\* C4: with no active credential stored (no row, or an empty key) a
\* non-blank query ends with 503 and a remediation message, and no
\* suggestion call, status call, cache write or audit write is made.
C4_MissingCredentialIs503 ==
  apiKeyRecord \in {"none", "empty"} =>
    /\ pc = "done"
    /\ Responded /\ TheResponse.code = 503 /\ TheResponse.message # ""
    /\ ~Called("suggest") /\ ~Called("status") /\ ~Called("dns")
    /\ ~Called("cache") /\ ~Called("historyInsert") /\ ~Called("historyUpdate")
    /\ cache = EmptyCache
    /\ history = <<>>

C4_Witness == apiKeyRecord = "empty" /\ ~BlankQuery /\ Responded

\* C5: a cache write that fails (step 4, retry pass or region pass) never
\* makes the search fail: the request still ends as a successful response.
C5_CacheFailureNotFatal == (Threw("cache") /\ Responded) => TheResponse.code = 200

\* C6: a pricing lookup that fails never makes the search fail: the
\* request still ends as a successful response.
C6_PricingFailureNotFatal == (Threw("pricing") /\ Responded) => TheResponse.code = 200

\* C7: in every response each result whose final state is taken has its
\* whois field present as the explicit placeholder (null), never omitted.
C7_TakenHasWhoisPlaceholder ==
  \A i \in 1..Len(ReturnedResults) :
    ReturnedResults[i].status = "taken" => ReturnedResults[i].whois = "null"

\* C8: in every response the offers of each available result are in
\* ascending order of price, JPY prices converted at the fixed rate.
C8_OffersSortedByPrice ==
  \A i \in 1..Len(ReturnedResults) :
    ReturnedResults[i].status = "available" =>
      LET offers == OffersOf(ReturnedResults[i])
      IN  \A a, b \in 1..Len(offers) : a < b => Scaled(offers[a]) <= Scaled(offers[b])

\* C9: in every response no offer list holds two offers of one registrar
\* id, and the offer kept for a registrar is the first row of that registrar
\* for the result's zone, with a price, in the order of the pricing query.
FirstRowFor(rows, tld, id) ==
  CHOOSE k \in 1..Len(rows) :
    /\ rows[k].id = id /\ rows[k].tld = tld /\ rows[k].price # SqlNull
    /\ \A m \in 1..(k - 1) :
         ~(rows[m].id = id /\ rows[m].tld = tld /\ rows[m].price # SqlNull)

C9_OneOfferPerRegistrar ==
  \A i \in 1..Len(ReturnedResults) :
    LET r == ReturnedResults[i]
        offers == OffersOf(r)
    IN  /\ \A a, b \in 1..Len(offers) : a # b => offers[a].id # offers[b].id
        /\ \A a \in 1..Len(offers) :
             /\ \E k \in 1..Len(pricingTable) :
                  /\ pricingTable[k].id = offers[a].id
                  /\ pricingTable[k].tld = r.tld
                  /\ pricingTable[k].price # SqlNull
             /\ LET row == pricingTable[FirstRowFor(pricingTable, r.tld, offers[a].id)]
                IN  offers[a].price = row.price /\ offers[a].currency = row.currency

\* A response with an offer list whose registrar has a second, later row
\* for the same zone.
C9_Witness ==
  \E i \in 1..Len(ReturnedResults) :
    LET r == ReturnedResults[i]
        offers == OffersOf(r)
    IN  \E a \in 1..Len(offers) :
          \E k, m \in 1..Len(pricingTable) :
            /\ k < m
            /\ pricingTable[k].id = offers[a].id /\ pricingTable[m].id = offers[a].id
            /\ pricingTable[k].tld = r.tld /\ pricingTable[m].tld = r.tld

\* C10: in every response a result carries an offer list only if its
\* final state is available, after step 4, the retry pass and the region
\* pass.
C10_OffersOnlyWhenAvailable ==
  \A i \in 1..Len(ReturnedResults) :
    ReturnedResults[i].registrars # {} => ReturnedResults[i].status = "available"

\* A response after a retry pass and a region pass that holds a result
\* without offers and a result with offers.
C10_Witness ==
  /\ Succeeded /\ Retried /\ requestLanguage = {"ja"}
  /\ \E i \in 1..Len(ReturnedResults) :
       ReturnedResults[i].status = "taken" /\ ReturnedResults[i].whois = "undefined"
  /\ \E i \in 1..Len(ReturnedResults) :
       ReturnedResults[i].status = "available" /\ Len(OffersOf(ReturnedResults[i])) > 1

\* --------------------------------------- suggestions without a zone (C11)

\* A suggested name with no dot: extractTLD gives '' for it.
X_BARE == <<"x">>

BareSuggestLists == SeqsUpTo({X_IO, X_BARE}, MaxSuggest)

\* The same request, with a provider that may suggest the zoneless name.
InitBare ==
  /\ pc = "validate"
  /\ query \in Queries
  /\ requestLanguage \in Languages
  /\ apiKeyRow \in ApiKeyRows
  /\ providerResults \in BareSuggestLists
  /\ pricingTable \in PricingTables
  /\ normalized = <<>>
  /\ apiKeyRecord = "unread"
  /\ domains = <<>>
  /\ statusMap = EmptyMap
  /\ registrars = <<>>
  /\ results = <<>>
  /\ idx = 0
  /\ retryStatusMap = EmptyMap
  /\ cache = EmptyCache
  /\ history = <<>>
  /\ trace = <<>>
  /\ faults = 0
  /\ response = {}
  /\ evals = <<>>
  /\ reqs = <<>>

SpecBare == InitBare /\ [][Next]_vars

ResultDomains == [i \in 1..Len(results) |-> results[i].domain]

HasRecord(d) == d \in DOMAIN statusMap

Dotted(d) == \E i \in 1..Len(d) : d[i] = "."

\* C11, as stated: when the loop of step 4 has ended, the results are, in
\* order, one per occurrence of a domain of the capped list that has a status
\* record, and nothing for a domain without a record.
C11_OnePerRecordedDomain ==
  pc = "retry" => ResultDomains = SelectSeq(domains, HasRecord)

\* C11, amended: when the loop of step 4 has ended, the results are, in order,
\* one per occurrence of a domain of the capped list that has a status record
\* and a zone (a dot in its name), and nothing for any other domain.
C11_OnePerRecordedDomainWithZone ==
  pc = "retry" =>
    ResultDomains = SelectSeq(domains, LAMBDA d : HasRecord(d) /\ Dotted(d))

\* The zoneless name was suggested with a record, beside a name that gave the
\* one result.
C11_Witness ==
  /\ pc = "retry"
  /\ \E i \in 1..Len(domains) : domains[i] = X_BARE
  /\ HasRecord(X_BARE)
  /\ Len(domains) = 2
  /\ Len(results) = 1

\* ------------------------------------------------ duplicates (C12, C13)

\* C12: no response holds two results with the same domain string.
C12_NoDuplicateDomains ==
  Responded =>
    \A i, j \in 1..Len(TheResponse.results) :
      i # j => TheResponse.results[i].domain # TheResponse.results[j].domain

\* The status calls of the .jp pass: the first status call follows the
\* suggest call and the one of the retry follows the delay.
RegionStatusCalls ==
  {k \in 2..Len(trace) :
     trace[k].op = "status" /\ trace[k - 1].op \notin {"suggest", "delay"}}

\* At most one result has the domain of the .jp candidate.
RegionCandidateAtMostOnce ==
  Cardinality({i \in 1..Len(results) : results[i].domain = JpDomain(normalized)}) <= 1

\* When the .jp pass made its status call, no result before the last one has
\* the domain of the candidate: it was not among the results when the pass
\* began, and the pass appended at most the one result.
RegionCallOnlyWhenAbsent ==
  RegionStatusCalls # {} =>
    /\ Cardinality(RegionStatusCalls) = 1
    /\ \A i \in 1..(Len(results) - 1) : results[i].domain # JpDomain(normalized)

\* C13: for language 'ja', when the .jp pass is over, at most one result has
\* the domain of the .jp candidate, and a candidate that was already among the
\* results caused no status call and no appended result.
C13_RegionNeverDuplicates ==
  (pc = "respond" /\ requestLanguage = {"ja"}) =>
    RegionCandidateAtMostOnce /\ RegionCallOnlyWhenAbsent

\* The second half of C13 alone.
RegionPassSkipsPresentCandidate ==
  (pc = "respond" /\ requestLanguage = {"ja"}) => RegionCallOnlyWhenAbsent

\* ------------------------------------------- bounded work (C14, C15, C16)

CallsOf(op) == {k \in 1..Len(trace) : trace[k].op = op}

\* The status call for the capped list follows the suggest call, the one of
\* the retry pass follows the delay.
FirstStatusCalls == {k \in 2..Len(trace) : trace[k].op = "status" /\ trace[k - 1].op = "suggest"}
RetryStatusCalls == {k \in 2..Len(trace) : trace[k].op = "status" /\ trace[k - 1].op = "delay"}

\* The stages of the handler in the order of the code.
StageOf(stage) ==
  CASE stage = "validate" -> 1
    [] stage = "apiKey" -> 2
    [] stage = "suggest" -> 3
    [] stage = "status" -> 4
    [] stage = "pricing" -> 5
    [] stage = "candidates" -> 6
    [] stage = "retry" -> 7
    [] stage = "retryLoop" -> 8
    [] stage = "sort" -> 9
    [] stage = "jp" -> 10
    [] stage = "respond" -> 11
    [] stage = "done" -> 12

\* The list a loop stage walks through.
LoopLength == IF pc = "candidates" THEN Len(domains) ELSE Len(results)

\* A step either moves to a later stage or, inside one of the two loops,
\* moves to the next element of a list that the step does not lengthen
\* beyond the position reached: no stage is entered twice.
Advances ==
  \/ StageOf(pc') > StageOf(pc)
  \/ /\ pc' = pc
     /\ pc \in {"candidates", "retryLoop"}
     /\ idx \in 1..LoopLength
     /\ idx' = idx + 1
     /\ idx' <= LoopLength

\* C14: every request ends with a response (every step advances through the
\* finitely many stages and list positions, a request that has not answered
\* can take a step, and a finished request has answered), and on the way
\* batch status is called at most three times: at most once for the capped
\* list, at most once after the single delay of the retry pass, at most once
\* for the .jp candidate; a result that is still unknown after the retry
\* pass causes no second pass.
C14_BoundedRetryThenResponse ==
  /\ [](/\ Cardinality(CallsOf("status")) <= 3
        /\ Cardinality(FirstStatusCalls) <= 1
        /\ Cardinality(CallsOf("delay")) <= 1
        /\ Cardinality(RetryStatusCalls) <= 1
        /\ Cardinality(RegionStatusCalls) <= 1)
  /\ [](pc # "done" => ENABLED Next)
  /\ [](pc = "done" => Responded)
  /\ [][Advances]_vars

\* Three status calls were made and the response still holds an unknown
\* result after the retry pass.
C14_Witness ==
  /\ Succeeded
  /\ Cardinality(CallsOf("status")) = 3
  /\ Retried
  /\ \E i \in 1..Len(ReturnedResults) : ReturnedResults[i].status = "unknown"

\* The suggest call was made and gave no candidate: the provider answered
\* with an empty list, or the call failed and domainrSearch returned [].
SuggestedNothing ==
  \E k \in CallsOf("suggest") :
    trace[k].outcome # "ok" \/ providerResults = <<>>

\* C15: when the suggestion client yields no candidate the request is over at
\* once with a 200 response whose result list is empty, and no status call,
\* pricing query, DNS check, cache write or history write was made.
C15_NothingSuggestedMeansEmptySuccess ==
  SuggestedNothing =>
    /\ pc = "done"
    /\ Succeeded
    /\ TheResponse.results = <<>>
    /\ \A op \in {"status", "pricing", "dns", "cache", "historyInsert",
                  "historyUpdate", "delay"} : CallsOf(op) = {}
    /\ cache = EmptyCache
    /\ history = <<>>

\* The provider answered the call with an empty list.
C15_Witness ==
  /\ \E k \in CallsOf("suggest") : trace[k].outcome = "ok"
  /\ providerResults = <<>>
  /\ Succeeded

\* ------------------------------------------- suggestion lists up to the cap

\* A list of n suggestions that names first and other in turn, so that the
\* order of the list shows in every prefix.
Alternating(first, other, n) ==
  [i \in 1..n |-> IF i % 2 = 1 THEN first ELSE other]

LongSuggestLists ==
  {Alternating(X_IO, X_JP, n) : n \in 0..(DomainCap + MaxOver)}
    \cup {Alternating(X_JP, X_IO, n) : n \in 0..(DomainCap + MaxOver)}

\* A request whose provider returns up to DomainCap + MaxOver suggestions.
InitCap ==
  /\ pc = "validate"
  /\ query \in Queries
  /\ requestLanguage \in Languages
  /\ apiKeyRow \in ApiKeyRows
  /\ providerResults \in LongSuggestLists
  /\ pricingTable \in PricingTables
  /\ normalized = <<>>
  /\ apiKeyRecord = "unread"
  /\ domains = <<>>
  /\ statusMap = EmptyMap
  /\ registrars = <<>>
  /\ results = <<>>
  /\ idx = 0
  /\ retryStatusMap = EmptyMap
  /\ cache = EmptyCache
  /\ history = <<>>
  /\ trace = <<>>
  /\ faults = 0
  /\ response = {}
  /\ evals = <<>>
  /\ reqs = <<>>

\* The handler up to the start of the loop over the capped list.
NextCap ==
  \/ Validate
  \/ ReadApiKey
  \/ Suggest
  \/ BatchStatus
  \/ LoadPricing

SpecCap == InitCap /\ [][NextCap]_vars

\* The first DomainCap elements of a list, all of them when it is shorter.
FirstFifty(list) ==
  [i \in 1..(IF Len(list) < DomainCap THEN Len(list) ELSE DomainCap) |-> list[i]]

\* C16: once the status fan-out is over and until the loop over the
\* candidates begins, exactly one status call has been made, and its argument
\* is the first 50 suggested domains in the order of the suggestion list.
C16_OneStatusCallForFirstFifty ==
  pc \in {"pricing", "candidates"} =>
    /\ Cardinality(CallsOf("status")) = 1
    /\ \A k \in CallsOf("status") : trace[k].arg = FirstFifty(providerResults)
    /\ domains = FirstFifty(providerResults)

\* The provider suggested more than 50 domains and the status call was made.
C16_Witness ==
  /\ pc = "pricing"
  /\ Len(providerResults) > DomainCap
  /\ CallsOf("status") # {}
  /\ Len(domains) = DomainCap

\* ------------------------------------ the functions of utils.ts on their own

\* The concatenation of a list of strings.
RECURSIVE Concat(_)
Concat(pieces) ==
  IF pieces = <<>> THEN <<>> ELSE Head(pieces) \o Concat(Tail(pieces))

\* What a raw query is made of: protocol and www prefixes, a blank, a slash,
\* a bare name and a name with a zone in upper case.
NormalizePieces ==
  {HttpPrefix, HttpsPrefix, WwwPrefix, <<" ">>, <<"/">>, <<"x">>, <<"X",".","I","O">>}

NormalizeInputs == {Concat(p) : p \in SeqsUpTo(NormalizePieces, MaxPieces)}

\* The words of a status record: the ten words the classifier knows and one
\* it does not.
W_marketed == <<"m","a","r","k","e","t","e","d">>

StatusWords ==
  {W_inactive, W_available, W_undelegated, W_active, W_parked, W_claimed,
   W_registered, W_reserved, W_premium, W_unknown, W_marketed}

\* The tokens of a status field, separated by one blank.
RECURSIVE JoinBlank(_)
JoinBlank(words) ==
  IF words = <<>> THEN <<>>
  ELSE IF Len(words) = 1 THEN words[1]
  ELSE words[1] \o <<" ">> \o JoinBlank(Tail(words))

\* Status fields of up to MaxTokens tokens, and one with a leading and a
\* doubled blank.
StatusFields ==
  {JoinBlank(w) : w \in SeqsUpTo(StatusWords, MaxTokens)}
    \cup {<<" ">> \o W_active \o <<" ", " ">> \o W_inactive}

\* A record as the classifier gets it: absent, or present with a summary
\* (a word or '') and a status field.
ClassifierInputs ==
  {{}} \cup {{[summary |-> s, status |-> t]} : s \in StatusWords \cup {<<>>},
                                                t \in StatusFields}

\* Names of up to MaxLabels labels (a label may be empty, as in 'x..com').
Labels == {<<>>, <<"x">>, <<"c","o">>, <<"c","o","m">>, <<"i","n","f","o">>}

DomainInputs == {JoinDot(l) : l \in SeqsUpTo(Labels, MaxLabels) \ {<<>>}}

\* Every response of the resolver: the call fails, answers non-OK, or answers
\* with a body that has a Status and 0..MaxAnswers Answer records.
AllDnsResponses ==
  [outcome : {"throw", "notok", "json"}, Status : {0, 2, NXDOMAIN},
   answers : 0..MaxAnswers]

Eval(fn, arg, out) == [fn |-> fn, arg |-> arg, out |-> out]

\* No request is running; a function of utils.ts is about to be applied.
InitUtils ==
  /\ pc = "utils"
  /\ query = {}
  /\ requestLanguage = {}
  /\ apiKeyRow = "none"
  /\ providerResults = <<>>
  /\ pricingTable = <<>>
  /\ normalized = <<>>
  /\ apiKeyRecord = "unread"
  /\ domains = <<>>
  /\ statusMap = EmptyMap
  /\ registrars = <<>>
  /\ results = <<>>
  /\ idx = 0
  /\ retryStatusMap = EmptyMap
  /\ cache = EmptyCache
  /\ history = <<>>
  /\ trace = <<>>
  /\ faults = 0
  /\ response = {}
  /\ evals = <<>>
  /\ reqs = <<>>

request == <<pc, query, requestLanguage, apiKeyRow, providerResults,
             pricingTable, normalized, apiKeyRecord, domains, statusMap,
             registrars, results, idx, retryStatusMap, cache, history, trace,
             faults, response, reqs>>

\* normalizeDomain(x)
ApplyNormalize ==
  /\ evals = <<>>
  /\ \E x \in NormalizeInputs :
       evals' = <<Eval("normalizeDomain", x, normalizeDomain(x))>>
  /\ UNCHANGED request

\* normalizeDomain(normalizeDomain(x))
ApplyNormalizeAgain ==
  /\ Len(evals) = 1
  /\ evals[1].fn = "normalizeDomain"
  /\ evals' = Append(evals, Eval("normalizeDomain", evals[1].out,
                                 normalizeDomain(evals[1].out)))
  /\ UNCHANGED request

\* convertDomainrStatus(record)
ApplyClassifier ==
  /\ evals = <<>>
  /\ \E r \in ClassifierInputs :
       evals' = <<Eval("convertDomainrStatus", r, convertDomainrStatus(r))>>
  /\ UNCHANGED request

\* extractTLD(domain)
ApplyExtractTLD ==
  /\ evals = <<>>
  /\ \E d \in DomainInputs :
       evals' = <<Eval("extractTLD", d, extractTLD(d))>>
  /\ UNCHANGED request

\* checkDomainAvailabilityDNS(domain), the resolver answering resp
ApplyDnsCheck ==
  /\ evals = <<>>
  /\ \E resp \in AllDnsResponses :
       evals' = <<Eval("checkDomainAvailabilityDNS", resp,
                       checkDomainAvailabilityDNS(resp))>>
  /\ UNCHANGED request

\* What may follow the first token of a normalized query.
QueryTails == {<<>>, <<" ", "y">>, <<",", "y">>}

JpQueries == {d \o t : d \in DomainInputs, t \in QueryTails}

\* `${normalized.split(/[\s,]+/)[0].split('.')[0]}.jp`
ApplyJpDomain ==
  /\ evals = <<>>
  /\ \E q \in JpQueries :
       evals' = <<Eval("jpDomain", q, JpDomain(q))>>
  /\ UNCHANGED request

NextUtils ==
  \/ ApplyNormalize
  \/ ApplyNormalizeAgain
  \/ ApplyClassifier
  \/ ApplyExtractTLD
  \/ ApplyDnsCheck
  \/ ApplyJpDomain

SpecUtils == InitUtils /\ [][NextUtils]_vars

\* C17: normalizeDomain applied to its own result gives that result again.
C17_NormalizeIdempotent ==
  (Len(evals) = 2 /\ evals[2].fn = "normalizeDomain") =>
    evals[2].out = evals[2].arg

\* The tokens of a status field as a set: the maximal runs of non-blank
\* characters.
TokenSet(s) ==
  LET runs == {p \in (1..Len(s)) \X (1..Len(s)) :
                 /\ p[1] <= p[2]
                 /\ \A k \in p[1]..p[2] : s[k] # " "
                 /\ (p[1] = 1 \/ s[p[1] - 1] = " ")
                 /\ (p[2] = Len(s) \/ s[p[2] + 1] = " ")}
  IN  {SubSeq(s, p[1], p[2]) : p \in runs}

\* The priority rules for a present record.
StateBySummaryThenTokens(rec) ==
  CASE rec.summary \in {W_inactive, W_available, W_undelegated} -> "available"
    [] rec.summary \in {W_active, W_parked, W_claimed, W_registered, W_reserved} -> "taken"
    [] rec.summary \in {W_unknown, <<>>} ->
         IF TokenSet(rec.status) \cap {W_undelegated, W_inactive, W_available} # {}
           THEN "available"
         ELSE IF TokenSet(rec.status) \cap
                   {W_active, W_parked, W_premium, W_registered, W_reserved} # {}
           THEN "taken"
         ELSE "unknown"
    [] OTHER -> "unknown"

\* C18: the classifier gives unknown for an absent record and, for a present
\* one, the state of the priority rules: the summary decides when it is a
\* recognised word, the tokens decide only under the summary 'unknown' or '',
\* and any other summary gives unknown whatever the tokens are.
C18_ClassifierFollowsPriorityRules ==
  \A k \in 1..Len(evals) :
    evals[k].fn = "convertDomainrStatus" =>
      evals[k].out =
        IF evals[k].arg = {} THEN "unknown"
        ELSE StateBySummaryThenTokens(CHOOSE r \in evals[k].arg : TRUE)

\* A record whose summary says taken and whose tokens say available was
\* classified as taken.
C18_Witness ==
  /\ Len(evals) = 1
  /\ evals[1].fn = "convertDomainrStatus"
  /\ evals[1].arg = {[summary |-> W_active, status |-> W_inactive]}
  /\ evals[1].out = "taken"

\* The positions of the dots of a name.
Dots(d) == {i \in 1..Len(d) : d[i] = "."}

LastDot(d) == CHOOSE i \in Dots(d) : \A j \in Dots(d) : j <= i

DotBeforeLast(d) ==
  CHOOSE i \in Dots(d) \ {LastDot(d)} : \A j \in Dots(d) \ {LastDot(d)} : j <= i

\* From a position to the end of the name.
From(d, i) == SubSeq(d, i, Len(d))

\* C19: extractTLD gives '' exactly for a name with fewer than two labels (no
\* dot); for a name of three or more labels whose second-to-last label has at
\* most 3 characters it gives the name from the dot before that label on; in
\* all other cases it gives the name from the last dot on.  The result is
\* empty or begins with a dot.
C19_ZoneOfDomain ==
  \A k \in 1..Len(evals) :
    evals[k].fn = "extractTLD" =>
      LET d == evals[k].arg
          out == evals[k].out
      IN  /\ (out = <<>>) <=> (Cardinality(Dots(d)) + 1 < 2)
          /\ out # <<>> => out[1] = "."
          /\ Cardinality(Dots(d)) + 1 >= 2 =>
               out = IF /\ Cardinality(Dots(d)) + 1 >= 3
                        /\ LastDot(d) - DotBeforeLast(d) - 1 <= 3
                       THEN From(d, DotBeforeLast(d))
                       ELSE From(d, LastDot(d))

\* The zone of 'x.com.co', whose second-to-last label has 3 characters, is
\* the last two labels.
C19_Witness ==
  /\ Len(evals) = 1
  /\ evals[1].fn = "extractTLD"
  /\ evals[1].arg = <<"x",".","c","o","m",".","c","o">>
  /\ evals[1].out = <<".","c","o","m",".","c","o">>

\* C20: the DNS check gives available for a parsed OK answer whose Status is
\* NXDOMAIN, else taken for a parsed OK answer with one or more Answer
\* records, and unknown for everything else (the call fails, the response is
\* not OK, the body has no or an empty Answer): it always gives one of the
\* three states.
C20_DnsCheckIsTotal ==
  \A k \in 1..Len(evals) :
    evals[k].fn = "checkDomainAvailabilityDNS" =>
      LET resp == evals[k].arg
      IN  /\ evals[k].out \in {"available", "taken", "unknown"}
          /\ evals[k].out =
               IF resp.outcome = "json" /\ resp.Status = NXDOMAIN THEN "available"
               ELSE IF resp.outcome = "json" /\ resp.answers >= 1 THEN "taken"
               ELSE "unknown"

\* The resolver call failed and the check gave unknown.
C20_Witness ==
  /\ Len(evals) = 1
  /\ evals[1].fn = "checkDomainAvailabilityDNS"
  /\ evals[1].arg.outcome = "throw"
  /\ evals[1].out = "unknown"

\* --------------------------------------------- cache and retry (C21 - C25)

\* 1 for available, 0 for taken, 2 for unknown.
CodeOfState(status) ==
  CASE status = "available" -> 1
    [] status = "taken" -> 0
    [] status = "unknown" -> 2

\* The cache row of each returned result holds the code of its state.
CacheAgreesWithResults ==
  \A i \in 1..Len(ReturnedResults) :
    /\ ReturnedResults[i].domain \in DOMAIN cache
    /\ cache[ReturnedResults[i].domain] = CodeOfState(ReturnedResults[i].status)

\* No domain is suggested twice.
DistinctSuggestions ==
  \A i, j \in 1..Len(providerResults) :
    i # j => providerResults[i] # providerResults[j]

\* C21: when the request has ended with a 200 response, the domain_cache row
\* of every returned result's domain holds the code of that result's final
\* state.
C21_CacheHoldsFinalState ==
  Succeeded => CacheAgreesWithResults

\* The same for requests whose suggestion list names no domain twice.
CacheHoldsFinalStateOfDistinct ==
  (Succeeded /\ DistinctSuggestions) => CacheAgreesWithResults

\* The calls a step adds to the trace.
NewCalls == SubSeq(trace', Len(trace) + 1, Len(trace'))

\* The result the running iteration of the retry loop looks at is unknown.
RetryVisitsUnknown ==
  /\ pc = "retryLoop"
  /\ results[idx].status = "unknown"

\* What the classifier makes of the second response for that result.
Reclassified ==
  convertDomainrStatus(MapGet(retryStatusMap, results[idx].domain))

\* The iteration leaves the result with the reclassified state, or, when
\* that is unknown, asks the resolver about the domain and leaves the result
\* with the resolver's state.
ReclassifiesWithFallback ==
  IF Reclassified # "unknown"
    THEN results'[idx].status = Reclassified
    ELSE /\ NewCalls # <<>>
         /\ NewCalls[1].op = "dns"
         /\ NewCalls[1].arg = results[idx].domain
         /\ results'[idx].status = NewCalls[1].outcome

\* C22: in the retry pass every result that is unknown after step 4 is
\* reclassified from the second status response, and when the
\* reclassification is unknown, a missing record included, the DNS check is
\* made once more and gives the result's state.
C22_RetryReclassifiesEveryUnknown ==
  [][RetryVisitsUnknown => ReclassifiesWithFallback]_vars

\* The same for the results the second response holds a record for.
RetryReclassifiesRecorded ==
  [][(RetryVisitsUnknown /\ MapGet(retryStatusMap, results[idx].domain) # {})
       => ReclassifiesWithFallback]_vars

\* The domains of the results that are unknown.
UnknownSet == {results[i].domain : i \in {j \in 1..Len(results) : results[j].status = "unknown"}}

\* C23: at the end of step 4 the retry pass starts exactly when a result is
\* unknown; it then first waits and next makes the second status call, whose
\* argument names exactly the domains of the unknown results; otherwise no
\* call is made and the handler goes on to the sort.
C23_RetryExactlyForUnknown ==
  [][pc = "retry" =>
       IF UnknownSet # {}
         THEN /\ pc' = "retryLoop"
              /\ Len(NewCalls) = 2
              /\ NewCalls[1].op = "delay"
              /\ NewCalls[2].op = "status"
              /\ {NewCalls[2].arg[i] : i \in 1..Len(NewCalls[2].arg)} = UnknownSet
         ELSE /\ pc' = "sort"
              /\ NewCalls = <<>>]_vars

\* The retry pass began for one unknown result beside one that is not.
C23_Witness ==
  /\ pc = "retryLoop"
  /\ Len(results) = 2
  /\ Cardinality(UnknownSet) = 1
  /\ \E i \in 1..2 : results[i].status # "unknown" /\ results[i].domain \notin UnknownSet
  /\ CallsOf("delay") # {}

\* The domain a step of one of the three passes resolves, and the status
\* response it classifies (the .jp pass gets its own response in the step).
Subject ==
  CASE pc = "candidates" -> domains[idx]
    [] pc = "retryLoop" -> results[idx].domain
    [] pc = "jp" -> JpDomain(normalized)

GoverningMap ==
  CASE pc = "candidates" -> statusMap
    [] pc = "retryLoop" -> retryStatusMap
    [] pc = "jp" -> IF NewCalls # <<>> /\ NewCalls[1].op = "status"
                      THEN NewCalls[1].outcome
                      ELSE EmptyMap

Classification == convertDomainrStatus(MapGet(GoverningMap, Subject))

DnsAsked == \E k \in 1..Len(NewCalls) : NewCalls[k].op = "dns"

\* The state the step gives the result it builds or updates is the
\* classification.
KeepsClassification ==
  IF pc = "retryLoop"
    THEN (results[idx].status = "unknown" /\ Subject \in DOMAIN retryStatusMap)
           => results'[idx].status = Classification
    ELSE Len(results') > Len(results)
           => results'[Len(results')].status = Classification

InResolvingPass == pc \in {"candidates", "retryLoop", "jp"}

DnsFollowsClassifier ==
  /\ DnsAsked => (Classification = "unknown" /\ Subject \in DOMAIN GoverningMap)
  /\ Classification # "unknown" => (~DnsAsked /\ KeepsClassification)

\* C24: in step 4, in the retry pass and in the .jp pass the resolver is asked
\* only for a domain whose status record the classifier called unknown; a
\* domain classified available or taken gets that state and no DNS query.
C24_DnsOnlyForUnknown ==
  [][InResolvingPass => DnsFollowsClassifier]_vars

\* Step 4 is over with one domain classified taken and kept so, and one DNS
\* query for the other domain.
C24_Witness ==
  /\ pc = "retry"
  /\ Len(results) = 2
  /\ Cardinality(CallsOf("dns")) = 1
  /\ convertDomainrStatus(MapGet(statusMap, results[1].domain)) = "taken"
  /\ results[1].status = "taken"
  /\ \A k \in CallsOf("dns") : trace[k].arg = results[2].domain

\* How often a value occurs in a list.
Occurrences(list, x) == Cardinality({i \in 1..Len(list) : list[i] = x})

\* A step of the retry loop changes no result but the one it looks at, and
\* that one only if it is unknown; the loop then moves on (or the request
\* ends), so that no result is looked at twice.
RetryTouchesOnlyUnknown ==
  /\ Len(results') = Len(results)
  /\ \A i \in 1..Len(results) :
       (i # idx \/ results[i].status # "unknown") => results'[i] = results[i]
  /\ (pc' = "retryLoop" => idx' = idx + 1)

\* A step outside the retry loop changes no result: it appends to the
\* results or reorders them.
KeepsEveryResult ==
  \/ /\ Len(results') >= Len(results)
     /\ SubSeq(results', 1, Len(results)) = results
  \/ /\ Len(results') = Len(results)
     /\ \A i \in 1..Len(results) :
          Occurrences(results', results[i]) = Occurrences(results, results[i])

\* C25: the retry pass leaves every result that is available or taken after
\* step 4 as it is (state, offers, whois), and a result's state changes at
\* most once in a request: only in the one iteration of the retry loop that
\* looks at it.
C25_RetryLeavesResolvedResults ==
  [][IF pc = "retryLoop" THEN RetryTouchesOnlyUnknown ELSE KeepsEveryResult]_vars

\* The retry loop has passed a result that was not unknown and changed the
\* state of another.
C25_Witness ==
  /\ pc = "sort"
  /\ Retried
  /\ Len(results) = 2
  /\ \E i \in 1..2 : results[i].status = "taken" /\ results[i].domain \notin DOMAIN retryStatusMap
  /\ \E i \in 1..2 : results[i].status = "available" /\ results[i].domain \in DOMAIN retryStatusMap

\* ------------------------------------------ order and audit (C26, C27)

\* s can be got from t by leaving elements out.
SubsequenceOf(s, t) ==
  \E f \in [1..Len(s) -> 1..Len(t)] :
    /\ \A i, j \in 1..Len(s) : i < j => f[i] < f[j]
    /\ \A i \in 1..Len(s) : t[f[i]] = s[i]

\* The positions of the result the .jp pass added: it made its status call
\* only because no result had the candidate's domain.
RegionalPositions ==
  IF RegionStatusCalls = {} THEN {}
  ELSE {i \in 1..Len(ReturnedResults) :
          ReturnedResults[i].domain = JpDomain(normalized)}

\* The domains of the suggestion-derived results of one state, in the order
\* of the response.
DomainsInState(s) ==
  LET own == {i \in 1..Len(ReturnedResults) :
                i \notin RegionalPositions /\ ReturnedResults[i].status = s}
      pos == [k \in 1..Cardinality(own) |->
                CHOOSE i \in own : Cardinality({j \in own : j < i}) = k - 1]
  IN  [k \in 1..Cardinality(own) |-> ReturnedResults[pos[k]].domain]

\* C26: in a response the results of one state that come from the
\* suggestions are in the order of the capped suggestion list, and the result
\* of the .jp pass comes after every other result of its state.
C26_SuggestionOrderWithinState ==
  Succeeded =>
    /\ \A s \in {"available", "taken", "unknown"} :
         SubsequenceOf(DomainsInState(s), domains)
    /\ \A r \in RegionalPositions, i \in 1..Len(ReturnedResults) :
         (i # r /\ ReturnedResults[i].status = ReturnedResults[r].status) => i < r

\* Two suggestions with different domains came out taken, and the .jp pass
\* added a taken result.
C26_Witness ==
  /\ Succeeded
  /\ Len(ReturnedResults) = 2
  /\ RegionalPositions = {2}
  /\ ReturnedResults[1].status = "taken"
  /\ ReturnedResults[2].status = "taken"

\* The rows of search_history and the results that name a domain.
RowsOf(d) == {i \in 1..Len(history) : history[i].domain = d}
ResultsOf(d) == {i \in 1..Len(results) : results[i].domain = d}

\* C27: a request has at no time more search_history rows than results, in
\* all and for each domain: a row is inserted only with the INSERT that
\* accompanies a pushed result, and the retry pass, which updates a row,
\* adds none.
C27_OneAuditRowPerResult ==
  /\ Len(history) <= Cardinality(CallsOf("historyInsert"))
  /\ Cardinality(CallsOf("historyInsert")) <= Len(results)
  /\ \A i \in 1..Len(history) :
       Cardinality(RowsOf(history[i].domain)) <= Cardinality(ResultsOf(history[i].domain))

\* The retry pass updated the one row of the one result that step 4 had
\* recorded as unknown.
C27_Witness ==
  /\ Succeeded
  /\ \E k \in CallsOf("historyUpdate") : trace[k].outcome = "ok"
  /\ Len(ReturnedResults) = 1
  /\ Len(history) = 1
  /\ history[1].status = "taken"
  /\ ReturnedResults[1].status = "taken"

\* ------------------------------------------------ the .jp candidate (C28)

\* The text before the first blank or comma of a query.
TokenEnd(q) ==
  IF \E i \in 1..Len(q) : q[i] \in {" ", ","}
    THEN (CHOOSE i \in 1..Len(q) :
            q[i] \in {" ", ","} /\ \A j \in 1..(i - 1) : q[j] \notin {" ", ","}) - 1
    ELSE Len(q)

\* That token without its zone, followed by '.jp'.
ZoneReplacedByJp(q) ==
  LET token == SubSeq(q, 1, TokenEnd(q))
  IN  SubSeq(token, 1, Len(token) - Len(extractTLD(token))) \o <<".", "j", "p">>

\* C28: for a normalized query with a first label, the .jp candidate is the
\* first token of the query with its zone, as extractTLD gives it, replaced
\* by '.jp'.
C28_RegionalCandidateReplacesZone ==
  \A k \in 1..Len(evals) :
    (evals[k].fn = "jpDomain" /\ evals[k].arg # <<>> /\ evals[k].arg[1] # ".") =>
      evals[k].out = ZoneReplacedByJp(evals[k].arg)

\* ------------------------------------ two requests at the same time (C29)

\* Two requests with the same normalized query 'x' run concurrently.  Each
\* has one candidate that step 4 finds unknown and records in
\* search_history, and that its retry pass resolves.  A request is
\* [pc, domain, status, row]: row is the position of the search_history row
\* the request inserted, 0 when its INSERT failed.
Requests == {1, 2}

InitPair ==
  /\ pc = "pair"
  /\ query = {<<"x">>}
  /\ requestLanguage = {}
  /\ apiKeyRow = "key"
  /\ providerResults = <<>>
  /\ pricingTable = PricingA
  /\ normalized = <<"x">>
  /\ apiKeyRecord = "key"
  /\ domains = <<>>
  /\ statusMap = EmptyMap
  /\ registrars = <<>>
  /\ results = <<>>
  /\ idx = 0
  /\ retryStatusMap = EmptyMap
  /\ cache = EmptyCache
  /\ history = <<>>
  /\ trace = <<>>
  /\ faults = 0
  /\ response = {}
  /\ evals = <<>>
  /\ reqs \in [Requests -> [pc : {"step4"}, domain : SuggestDomains,
                            status : {"unknown"}, row : {0}]]

\* What the two requests leave alone: everything but search_history, the
\* fault count and their own records.
pairFrame == <<pc, query, requestLanguage, apiKeyRow, providerResults,
               pricingTable, normalized, apiKeyRecord, domains, statusMap,
               registrars, results, idx, retryStatusMap, cache, trace,
               response, evals>>

\* index.tsx 183-197: request r records its candidate, found unknown, in
\* search_history; a failure is logged and ignored.
PairInsert(r) ==
  /\ pc = "pair"
  /\ reqs[r].pc = "step4"
  /\ \E auditOk \in OkChoices :
       /\ history' = IF auditOk
                       THEN Append(history, HistoryRow(reqs[r].domain, "unknown",
                                                       extractTLD(reqs[r].domain), "en"))
                       ELSE history
       /\ reqs' = [reqs EXCEPT ![r].pc = "retry",
                               ![r].row = IF auditOk THEN Len(history) + 1 ELSE 0]
       /\ faults' = IF auditOk THEN faults ELSE faults + 1
  /\ UNCHANGED pairFrame

\* index.tsx 214-274: the retry pass of request r resolves its candidate to
\* retryStatus and updates the latest search_history row of (domain,
\* search_query); a failure is logged and ignored.
PairRetry(r) ==
  /\ pc = "pair"
  /\ reqs[r].pc = "retry"
  /\ \E retryStatus \in {"available", "taken", "unknown"}, auditOk \in OkChoices :
       /\ history' = IF auditOk
                       THEN UpdateLatest(history, reqs[r].domain, normalized, retryStatus)
                       ELSE history
       /\ reqs' = [reqs EXCEPT ![r].pc = "done", ![r].status = retryStatus]
       /\ faults' = IF auditOk THEN faults ELSE faults + 1
  /\ UNCHANGED pairFrame

NextPair == \E r \in Requests : PairInsert(r) \/ PairRetry(r)

SpecPair == InitPair /\ [][NextPair]_vars

\* The two requests are about one domain and no audit statement failed.
SameDomainNoFailure ==
  /\ pc = "pair"
  /\ reqs[1].domain = reqs[2].domain
  /\ faults = 0

BothComplete == \A r \in Requests : reqs[r].pc = "done"

\* C29: when two requests with the same normalized query reach the retry
\* step for the same domain concurrently, each request's update changes the
\* search_history row that request inserted, so that after both complete
\* each row holds its own request's final state.
C29_EachRequestUpdatesItsOwnRow ==
  (SameDomainNoFailure /\ BothComplete) =>
    \A r \in Requests : history[reqs[r].row].status = reqs[r].status


\* ------------------------------------------ raw queries that vanish (C30)

\* Request bodies whose query is built of prefixes, separators and names.
RawQueries == {{x} : x \in NormalizeInputs} \cup {{}}

\* The provider's answers tried for them.
ShortSuggestLists == {<<>>, <<X_IO>>}

InitQuery ==
  /\ pc = "validate"
  /\ query \in RawQueries
  /\ requestLanguage = {}
  /\ apiKeyRow \in ApiKeyRows
  /\ providerResults \in ShortSuggestLists
  /\ pricingTable \in PricingTables
  /\ normalized = <<>>
  /\ apiKeyRecord = "unread"
  /\ domains = <<>>
  /\ statusMap = EmptyMap
  /\ registrars = <<>>
  /\ results = <<>>
  /\ idx = 0
  /\ retryStatusMap = EmptyMap
  /\ cache = EmptyCache
  /\ history = <<>>
  /\ trace = <<>>
  /\ faults = 0
  /\ response = {}
  /\ evals = <<>>
  /\ reqs = <<>>

SpecQuery == InitQuery /\ [][NextCap]_vars

\* The raw query is present and its normal form is the empty string.
NormalizesToEmpty == \E q \in query : normalizeDomain(q) = <<>>

\* The request was answered with the client error.
Rejected == \E r \in response : r.code = 400

\* C30: the suggestion client is never called with an empty normalized
\* query: a raw query whose normal form is the empty string is rejected with
\* the client error before the suggest stage.
C30_EmptyNormalFormRejected ==
  /\ \A k \in CallsOf("suggest") : trace[k].arg # <<>>
  /\ (NormalizesToEmpty /\ pc # "validate") => Rejected

====
